---- MODULE Spec2Model ----
(***************************************************************************)
(* The PGN codec of Cute Chess: PgnGame::readItem (the item scanner),      *)
(* PgnGame::PgnGame(PgnFile&, int) (the game builder) and PgnGame::write   *)
(* (the writer), from projects/lib/src/pgngame.cpp.                        *)
(*                                                                         *)
(* A text is a sequence of one-character strings.  The rules engine        *)
(* (Chess::Board, Chess::Variant, Chess::Result) and the stream (PgnFile)  *)
(* are not part of pgngame.cpp; they are modelled by small stand-ins that  *)
(* keep what the codec relies on: a board has a variant and a position, a  *)
(* position is a starting FEN plus the moves made from it, legality        *)
(* depends on the variant and the position, and move text is converted to  *)
(* and from move values.                                                   *)
(***************************************************************************)
EXTENDS Integers, Sequences, FiniteSets, TLC

\* ------------------------------------------------------------- bounds
\* Longest input stream, in fragments of the family it is drawn from.
MaxToks == 3
\* Largest maxMoves argument handed to the builder.
MaxMovesArg == 3
\* Number of records constructed from one stream.
MaxGames == 2

\* ------------------------------------------------------------- characters
\* QChar(): the null character.  It is the value of an unset bracket and
\* what readChar yields once the stream is exhausted.
NUL == "NUL"
Q == "\""
LF == "\n"
CR == "\r"
TAB == "\t"

\* QChar::isSpace
IsSpace(c) == c \in {" ", LF, CR, TAB}

\* QChar::isDigit
IsDigit(c) == c \in {"0", "1", "2", "3", "4", "5", "6", "7", "8", "9"}

\* QString::trimmed: whitespace removed from both ends.
RECURSIVE TrimLeft(_)
TrimLeft(s) ==
    IF s # <<>> /\ IsSpace(Head(s)) THEN TrimLeft(Tail(s)) ELSE s

RECURSIVE TrimRight(_)
TrimRight(s) ==
    IF s # <<>> /\ IsSpace(s[Len(s)]) THEN TrimRight(SubSeq(s, 1, Len(s) - 1)) ELSE s

Trimmed(s) == TrimRight(TrimLeft(s))

\* Index of the first occurrence of character c in s, 0 when there is none.
RECURSIVE IndexFrom(_, _, _)
IndexFrom(s, c, i) ==
    IF i > Len(s) THEN 0
    ELSE IF s[i] = c THEN i
    ELSE IndexFrom(s, c, i + 1)

\* QString::section(' ', 0, 0): the text before the first space.
SectionFirst(s) ==
    LET i == IndexFrom(s, " ", 1)
    IN IF i = 0 THEN s ELSE SubSeq(s, 1, i - 1)

\* QString::section(' ', 1): the text after the first space.
SectionRest(s) ==
    LET i == IndexFrom(s, " ", 1)
    IN IF i = 0 THEN <<>> ELSE SubSeq(s, i + 1, Len(s))

\* QString::replace('\"', ""): every double quote removed.
RemoveQuotes(s) == SelectSeq(s, LAMBDA c : c # Q)

\* ------------------------------------------------------------- rules engine
\* Chess::Variant
NoVariant == "NoVariant"
Standard == "Standard"
Fischerandom == "Fischerandom"

sStandard == <<"s", "t", "a", "n", "d", "a", "r", "d">>
sFischerandom == <<"f", "i", "s", "c", "h", "e", "r", "a", "n", "d", "o", "m">>

\* Chess::Variant::Variant(const QString&)
VariantFromString(s) ==
    IF s = sStandard THEN Standard
    ELSE IF s = sFischerandom THEN Fischerandom
    ELSE NoVariant

\* Chess::Variant::toString
VariantToString(v) ==
    IF v = Standard THEN sStandard
    ELSE IF v = Fischerandom THEN sFischerandom
    ELSE <<>>

\* Chess::Variant::isRandom
IsRandom(v) == v = Fischerandom

\* Position descriptors.  The last character names the side to move.
FenStd == <<"r", "n", " ", "w">>
FenRndA == <<"n", "r", " ", "w">>
FenRndB == <<"b", "n", " ", "w">>
FenBlack == <<"k", " ", "b">>

\* The positions a random variant's generator may hand out.
RandomFens == {FenRndA, FenRndB}

\* Every descriptor the board accepts.
ValidFens == {FenStd, FenRndA, FenRndB, FenBlack}

\* Chess::Variant::startingFen.  A random variant draws a position: rnd is
\* the outcome of that draw.
StartingFen(v, rnd) == IF IsRandom(v) THEN rnd ELSE FenStd

\* The starting positions startingFen can return for a variant.
StartingFens(v) == IF IsRandom(v) THEN RandomFens ELSE {FenStd}

\* Chess::Move values; NullMove is what unparseable text converts to.
NullMove == 0
MvE4 == 1
MvNf3 == 2
MvE5 == 3

sE4 == <<"e", "4">>
sNf3 == <<"N", "f", "3">>
sE5 == <<"e", "5">>

\* Chess::Board(variant): an empty board.
NewBoard(v) == [variant |-> v, fen |-> <<>>, hist |-> <<>>]

\* Chess::Board::setVariant
SetVariant(b, v) == [b EXCEPT !.variant = v]

\* Chess::Board::setBoard: whether the descriptor is accepted.
SetBoardOk(b, fen) == fen \in ValidFens

\* Chess::Board::setBoard: the board afterwards.
SetBoard(b, fen) ==
    IF SetBoardOk(b, fen) THEN [b EXCEPT !.fen = fen, !.hist = <<>>] ELSE b

\* Chess::Board::moveFromString
MoveFromString(b, s) ==
    IF s = sE4 THEN MvE4
    ELSE IF s = sNf3 THEN MvNf3
    ELSE IF s = sE5 THEN MvE5
    ELSE NullMove

\* Chess::Board::moveString (standard algebraic)
MoveString(b, m) ==
    IF m = MvE4 THEN sE4
    ELSE IF m = MvNf3 THEN sNf3
    ELSE IF m = MvE5 THEN sE5
    ELSE <<>>

\* The side to move in a position: the descriptor's side, flipped by every
\* move made since.
SideToMove(b) ==
    LET first == IF b.fen # <<>> /\ b.fen[Len(b.fen)] = "b" THEN 1 ELSE 0
    IN IF (first + Len(b.hist)) % 2 = 0 THEN "w" ELSE "b"

MoveSide(m) == IF m = MvE5 THEN "b" ELSE "w"

\* Chess::Board::isLegalMove.  A move is legal when the board holds a
\* position, it is that side's turn, the move was not played before, and
\* the variant has it (Nf3 exists in the standard variant only).
IsLegalMove(b, m) ==
    /\ m \in {MvE4, MvNf3, MvE5}
    /\ b.fen \in ValidFens
    /\ MoveSide(m) = SideToMove(b)
    /\ \A i \in 1..Len(b.hist) : b.hist[i] # m
    /\ (m = MvNf3 => b.variant = Standard)

\* Chess::Board::makeMove
MakeMove(b, m) == [b EXCEPT !.hist = Append(b.hist, m)]

\* Chess::Result
WhiteWins == "WhiteWins"
BlackWins == "BlackWins"
Draw == "Draw"
NoResult == "NoResult"
ResultError == "ResultError"

sWhiteWins == <<"1", "-", "0">>
sBlackWins == <<"0", "-", "1">>
sDraw == <<"1", "/", "2", "-", "1", "/", "2">>
sNoResult == <<"*">>

\* Chess::Result::Result(const QString&)
ResultFromString(s) ==
    IF s = sWhiteWins THEN WhiteWins
    ELSE IF s = sBlackWins THEN BlackWins
    ELSE IF s = sDraw THEN Draw
    ELSE IF s = sNoResult THEN NoResult
    ELSE ResultError

\* Chess::Result::toSimpleString and Chess::Result::toString: the
\* terminator string of the result.
ResultToString(r) ==
    IF r = WhiteWins THEN sWhiteWins
    ELSE IF r = BlackWins THEN sBlackWins
    ELSE IF r = Draw THEN sDraw
    ELSE sNoResult

\* ------------------------------------------------------------- the stream
\* A PgnFile is read through a position (the number of characters consumed)
\* and a status; `in` bundles them with the file's board:
\* [pos, status, board].
Ok == "Ok"
ReadPastEnd == "ReadPastEnd"

\* PgnFile::skipWhiteSpace
RECURSIVE SkipWhiteSpace(_, _)
SkipWhiteSpace(chars, pos) ==
    IF pos < Len(chars) /\ IsSpace(chars[pos + 1])
    THEN SkipWhiteSpace(chars, pos + 1)
    ELSE pos

\* PgnFile::readChar: the next character, or the null character and a
\* ReadPastEnd status once nothing is left.
ReadChar(chars, pos) ==
    IF pos < Len(chars)
    THEN [c |-> chars[pos + 1], pos |-> pos + 1, status |-> Ok]
    ELSE [c |-> NUL, pos |-> pos, status |-> ReadPastEnd]

\* PgnFile::readLine: the text up to the next line break, which is consumed.
ReadLine(chars, pos) ==
    LET i == IndexFrom(chars, LF, pos + 1)
    IN IF i = 0
       THEN [line |-> SubSeq(chars, pos + 1, Len(chars)), pos |-> Len(chars)]
       ELSE [line |-> SubSeq(chars, pos + 1, i - 1), pos |-> i]

\* PgnFile::rewindChar
RewindChar(pos) == IF pos > 0 THEN pos - 1 ELSE 0

\* ------------------------------------------------------------- the item scanner
\* PgnGame::PgnItem
PgnMove == "PgnMove"
PgnMoveNumber == "PgnMoveNumber"
PgnTag == "PgnTag"
PgnComment == "PgnComment"
PgnNag == "PgnNag"
PgnResult == "PgnResult"
PgnEmpty == "PgnEmpty"
PgnError == "PgnError"

\* The locals of readItem when its loop is entered.  ctl tells how the loop
\* is left: "run" (not yet), "break", or "error" (the return inside it).
ScanStart(pos, status) ==
    [pos |-> pos, status |-> status, itemType |-> PgnMove,
     openingBracket |-> NUL, closingBracket |-> NUL, bracketLevel |-> 0,
     str |-> <<>>, ctl |-> "run"]

\* The end of the loop body: bracket counting, the item's delimiters, and
\* the accumulation of the item's text.
Accumulate(s, c) ==
    IF c = s.openingBracket THEN [s EXCEPT !.bracketLevel = @ + 1]
    ELSE IF c = s.closingBracket
         THEN IF s.bracketLevel - 1 <= 0
              THEN [s EXCEPT !.bracketLevel = @ - 1, !.ctl = "break"]
              ELSE [s EXCEPT !.bracketLevel = @ - 1]
    ELSE IF s.itemType = PgnMove /\ IsSpace(c) THEN [s EXCEPT !.ctl = "break"]
    ELSE IF s.itemType = PgnMoveNumber /\ (IsSpace(c) \/ c = ".")
         THEN [s EXCEPT !.ctl = "break"]
    ELSE IF s.itemType = PgnNag /\ IsSpace(c) THEN [s EXCEPT !.ctl = "break"]
    ELSE [s EXCEPT !.str = Append(@, c)]

\* A bug: the '[' met after moves is not handed back to the stream.
OpenBracketNoRewind(s, c, nMoves) ==
    IF c = "[" /\ nMoves > 0
    THEN [s EXCEPT !.ctl = "error"]
    ELSE LET s2 == IF c = "[" THEN [s EXCEPT !.itemType = PgnTag, !.closingBracket = "]"]
                   ELSE IF c = "(" THEN [s EXCEPT !.itemType = PgnComment, !.closingBracket = ")"]
                   ELSE IF c = "{" THEN [s EXCEPT !.itemType = PgnComment, !.closingBracket = "}"]
                   ELSE s
             s3 == IF s2.closingBracket # NUL THEN [s2 EXCEPT !.openingBracket = c] ELSE s2
         IN Accumulate(s3, c)

\* A bug: every '[' is handed back to the stream as the start of the next
\* game, also when no move has been read.
OpenBracketAlwaysRewinds(s, c, nMoves) ==
    IF c = "["
    THEN [s EXCEPT !.pos = RewindChar(s.pos), !.ctl = "error"]
    ELSE LET s2 == IF c = "(" THEN [s EXCEPT !.itemType = PgnComment, !.closingBracket = ")"]
                   ELSE IF c = "{" THEN [s EXCEPT !.itemType = PgnComment, !.closingBracket = "}"]
                   ELSE s
             s3 == IF s2.closingBracket # NUL THEN [s2 EXCEPT !.openingBracket = c] ELSE s2
         IN Accumulate(s3, c)

\* The opening of a bracketed item.  A '[' met once moves have been read
\* rewinds the stream by one character and returns PgnError.
OpenBracket(s, c, nMoves) ==
    IF c = "[" /\ nMoves > 0
    THEN [s EXCEPT !.pos = RewindChar(s.pos), !.ctl = "error"]
    ELSE LET s2 == IF c = "[" THEN [s EXCEPT !.itemType = PgnTag, !.closingBracket = "]"]
                   ELSE IF c = "(" THEN [s EXCEPT !.itemType = PgnComment, !.closingBracket = ")"]
                   ELSE IF c = "{" THEN [s EXCEPT !.itemType = PgnComment, !.closingBracket = "}"]
                   ELSE s
             s3 == IF s2.closingBracket # NUL THEN [s2 EXCEPT !.openingBracket = c] ELSE s2
         IN Accumulate(s3, c)

\* A bug: a leading digit does not make the item a move number.
UnbracketedNoMoveNumber(chars, s, c, nMoves) ==
    IF s.str = <<>> /\ c = ";"
    THEN LET l == ReadLine(chars, s.pos)
         IN [s EXCEPT !.itemType = PgnComment, !.str = l.line, !.pos = l.pos,
                      !.ctl = "break"]
    ELSE IF s.str = <<>> /\ c = "%"
    THEN [s EXCEPT !.pos = ReadLine(chars, s.pos).pos]
    ELSE IF s.str = <<>> /\ c = "."
    THEN [s EXCEPT !.pos = SkipWhiteSpace(chars, s.pos)]
    ELSE IF s.str = <<>> /\ c = "$"
    THEN [s EXCEPT !.itemType = PgnNag]
    ELSE OpenBracket(s, c, nMoves)

\* The loop body while no bracket is open: the one-character items that are
\* only recognised before the item has any text, then the brackets.
Unbracketed(chars, s, c, nMoves) ==
    IF s.str = <<>> /\ c = ";"
    THEN LET l == ReadLine(chars, s.pos)
         IN [s EXCEPT !.itemType = PgnComment, !.str = l.line, !.pos = l.pos,
                      !.ctl = "break"]
    ELSE IF s.str = <<>> /\ c = "%"
    THEN [s EXCEPT !.pos = ReadLine(chars, s.pos).pos]
    ELSE IF s.str = <<>> /\ c = "."
    THEN [s EXCEPT !.pos = SkipWhiteSpace(chars, s.pos)]
    ELSE IF s.str = <<>> /\ c = "$"
    THEN [s EXCEPT !.itemType = PgnNag]
    ELSE IF s.str = <<>> /\ IsDigit(c) /\ s.itemType = PgnMove
    THEN OpenBracket([s EXCEPT !.itemType = PgnMoveNumber], c, nMoves)
    ELSE OpenBracket(s, c, nMoves)

\* A bug: text in front of the first tag is classified like any other.
ScanStepNoSkip(chars, s, hasTags, nMoves) ==
    LET r == ReadChar(chars, s.pos)
        c == r.c
        s0 == [s EXCEPT !.pos = r.pos, !.status = r.status]
    IN IF c \in {LF, CR} /\ s.itemType # PgnComment THEN [s0 EXCEPT !.ctl = "break"]
       ELSE IF s.openingBracket = NUL THEN Unbracketed(chars, s0, c, nMoves)
       ELSE Accumulate(s0, c)

\* One iteration of readItem's loop.
ScanStep(chars, s, hasTags, nMoves) ==
    LET r == ReadChar(chars, s.pos)
        c == r.c
        s0 == [s EXCEPT !.pos = r.pos, !.status = r.status]
    IN IF ~hasTags /\ s.itemType # PgnTag /\ c # "[" THEN s0
       ELSE IF c \in {LF, CR} /\ s.itemType # PgnComment THEN [s0 EXCEPT !.ctl = "break"]
       ELSE IF s.openingBracket = NUL THEN Unbracketed(chars, s0, c, nMoves)
       ELSE Accumulate(s0, c)

\* readItem's loop: while (in.status() == QTextStream::Ok).
RECURSIVE ScanLoop(_, _, _, _)
ScanLoop(chars, s, hasTags, nMoves) ==
    IF s.status = Ok /\ s.ctl = "run"
    THEN ScanLoop(chars, ScanStep(chars, s, hasTags, nMoves), hasTags, nMoves)
    ELSE s

\* The largest value of the int that toInt converts to.
IntMax == 2147483647

\* QString::toInt: [ok, val].  An optional sign and decimal digits, within
\* the range of a 32-bit int; the conversion fails on anything else, and on
\* a value out of that range.
DigitOf(c) ==
    CHOOSE d \in 0..9 : c = <<"0", "1", "2", "3", "4", "5", "6", "7", "8", "9">>[d + 1]

\* The digits s taken onto acc, which holds the negated value so far; 1
\* once the value has left the range of an int.
RECURSIVE DigitsValue(_, _)
DigitsValue(s, acc) ==
    IF s = <<>> \/ acc = 1 THEN acc
    ELSE IF acc < 0 - (IntMax \div 10)
            \/ (acc = 0 - (IntMax \div 10) /\ DigitOf(Head(s)) > (IntMax % 10) + 1)
         THEN 1
    ELSE DigitsValue(Tail(s), acc * 10 - DigitOf(Head(s)))

\* What toInt makes of the sign and the negated value neg of the digits.
ToIntOf(negative, allDigits, neg) ==
    IF ~allDigits \/ neg = 1 \/ (~negative /\ neg = 0 - IntMax - 1)
    THEN [ok |-> FALSE, val |-> 0]
    ELSE [ok |-> TRUE, val |-> IF negative THEN neg ELSE 0 - neg]

\* Whether every character of s is a digit, and there is one.
RECURSIVE AllDigits(_)
AllDigits(s) ==
    s # <<>> /\ IsDigit(Head(s)) /\ (Len(s) = 1 \/ AllDigits(Tail(s)))

ToInt(s) ==
    IF s # <<>> /\ Head(s) \in {"-", "+"}
    THEN ToIntOf(Head(s) = "-", AllDigits(Tail(s)),
                 IF AllDigits(Tail(s)) THEN DigitsValue(Tail(s), 0) ELSE 0)
    ELSE ToIntOf(FALSE, AllDigits(s), IF AllDigits(s) THEN DigitsValue(s, 0) ELSE 0)

\* The four termination markers.
Terminators == {sNoResult, sDraw, sWhiteWins, sBlackWins}

\* A bug: only a move item is taken for a termination marker.
IsTerminatorMoveOnly(itemType, str) == itemType = PgnMove /\ str \in Terminators

\* Whether the item is a termination marker: a move or move-number item
\* whose text is one of the four.
IsTerminator(itemType, str) ==
    itemType \in {PgnMove, PgnMoveNumber} /\ str \in Terminators

sWhite == <<"W", "h", "i", "t", "e">>
sBlack == <<"B", "l", "a", "c", "k">>
sResult == <<"R", "e", "s", "u", "l", "t">>
sVariant == <<"V", "a", "r", "i", "a", "n", "t">>
sFEN == <<"F", "E", "N">>

\* readItem on a tag item: the tag's name and parameter are applied to the
\* record and the board.  [item, board, rec].
TagItem(str, board, rec) ==
    LET tag == SectionFirst(str)
        param == RemoveQuotes(SectionRest(str))
    IN IF tag = sWhite
       THEN [item |-> PgnTag, board |-> board, rec |-> [rec EXCEPT !.m_whitePlayer = param]]
       ELSE IF tag = sBlack
       THEN [item |-> PgnTag, board |-> board, rec |-> [rec EXCEPT !.m_blackPlayer = param]]
       ELSE IF tag = sResult
       THEN [item |-> PgnTag, board |-> board,
             rec |-> [rec EXCEPT !.m_result = ResultFromString(param)]]
       ELSE IF tag = sVariant
       THEN LET v == VariantFromString(param)
            IN IF v = NoVariant
               THEN [item |-> PgnError, board |-> board, rec |-> [rec EXCEPT !.m_variant = v]]
               ELSE [item |-> PgnTag, board |-> SetVariant(board, v),
                     rec |-> [rec EXCEPT !.m_variant = v]]
       ELSE IF tag = sFEN
       THEN [item |-> IF SetBoardOk(board, param) THEN PgnTag ELSE PgnError,
             board |-> SetBoard(board, param),
             rec |-> [rec EXCEPT !.m_fen = param]]
       ELSE [item |-> PgnTag, board |-> board, rec |-> rec]

\* A bug: the move is appended and made without asking whether it is legal.
MoveItemUnchecked(str, board, rec, rnd) ==
    LET fen == IF rec.m_fen = <<>> THEN StartingFen(board.variant, rnd) ELSE rec.m_fen
        b1 == IF rec.m_fen = <<>> THEN SetBoard(board, fen) ELSE board
        move == MoveFromString(b1, str)
    IN IF ~rec.m_hasTags \/ move = NullMove
       THEN [item |-> PgnError, board |-> board, rec |-> rec]
       ELSE [item |-> PgnMove, board |-> MakeMove(b1, move),
             rec |-> [rec EXCEPT !.m_fen = fen, !.m_moves = Append(@, move)]]

\* readItem on a move item.  rnd is the position a random variant's
\* startingFen() draws, should it be called.  [item, board, rec].
MoveItem(str, board, rec, rnd) ==
    IF ~rec.m_hasTags
    THEN [item |-> PgnError, board |-> board, rec |-> rec]
    ELSE LET fen == IF rec.m_fen = <<>> THEN StartingFen(board.variant, rnd) ELSE rec.m_fen
             b1 == IF rec.m_fen = <<>> THEN SetBoard(board, fen) ELSE board
             rec1 == [rec EXCEPT !.m_fen = fen]
             move == MoveFromString(b1, str)
         IN IF IsLegalMove(b1, move)
            THEN [item |-> PgnMove, board |-> MakeMove(b1, move),
                  rec |-> [rec1 EXCEPT !.m_moves = Append(@, move)]]
            ELSE [item |-> PgnError, board |-> b1, rec |-> rec1]

\* A bug: a glyph number above 255 is let through.
NagItemNoUpperBound(str) ==
    LET n == ToInt(str)
    IN IF ~n.ok \/ n.val < 0 THEN PgnError ELSE PgnNag

\* readItem on a NAG item.
NagItem(str) ==
    LET n == ToInt(str)
    IN IF ~n.ok \/ n.val < 0 \/ n.val > 255 THEN PgnError ELSE PgnNag

\* readItem once its loop is left with the locals s, for an item that
\* started at start: the item's text is trimmed and interpreted.
InterpretItem(in, rec, rnd, s, start) ==
    LET str == Trimmed(s.str)
        in1 == [in EXCEPT !.pos = s.pos, !.status = s.status]
        same(item) == [item |-> item, in |-> in1, rec |-> rec, scan |-> s, start |-> start]
    IN IF s.ctl = "error" THEN same(PgnError)
       ELSE IF str = <<>> THEN same(PgnEmpty)
       ELSE IF IsTerminator(s.itemType, str)
       THEN [item |-> PgnResult, in |-> in1,
             rec |-> [rec EXCEPT !.m_result = ResultFromString(str)],
             scan |-> s, start |-> start]
       ELSE IF s.itemType = PgnTag
       THEN LET t == TagItem(str, in.board, rec)
            IN [item |-> t.item, in |-> [in1 EXCEPT !.board = t.board], rec |-> t.rec,
                scan |-> s, start |-> start]
       ELSE IF s.itemType = PgnMove
       THEN LET m == MoveItem(str, in.board, rec, rnd)
            IN [item |-> m.item, in |-> [in1 EXCEPT !.board = m.board], rec |-> m.rec,
                scan |-> s, start |-> start]
       ELSE IF s.itemType = PgnNag THEN same(NagItem(str))
       ELSE same(s.itemType)

\* readItem's loop, entered after the white space in front of the item has
\* been skipped at position start.
ScanItem(chars, in, rec, start) ==
    ScanLoop(chars, ScanStart(start, in.status), rec.m_hasTags, Len(rec.m_moves))

\* PgnGame::readItem.  in = [pos, status, board] is the PgnFile, rec the
\* record under construction.  The result holds the item, the stream and
\* the record afterwards, and the scanner's locals (scan) with the position
\* the item started at (start).
ReadItem(chars, in, rec, rnd) ==
    InterpretItem(in, rec, rnd,
                  ScanItem(chars, in, rec, SkipWhiteSpace(chars, in.pos)),
                  SkipWhiteSpace(chars, in.pos))

\* ------------------------------------------------------------- the game builder
\* The record PgnGame(PgnFile&, int) starts from: its initialiser list and
\* the members it leaves default-constructed.
EmptyRecord ==
    [m_whitePlayer |-> <<>>, m_blackPlayer |-> <<>>, m_result |-> NoResult,
     m_variant |-> Standard, m_isRandomVariant |-> FALSE, m_hasTags |-> FALSE,
     m_fen |-> <<>>, m_moves |-> <<>>]

\* The constructor up to its loop: the record takes the file's variant, and
\* only a file without one has its board set to the record's variant.
\* [in, rec].
NewRecord(in, fv) ==
    IF fv # NoVariant
    THEN [in |-> in, rec |-> [EmptyRecord EXCEPT !.m_variant = fv]]
    ELSE [in |-> [in EXCEPT !.board = SetVariant(in.board, EmptyRecord.m_variant)],
          rec |-> EmptyRecord]

\* A bug: the loop's bound is off by one.
LoopGuardOffByOne(in, rec, mm) == in.status = Ok /\ Len(rec.m_moves) <= mm

\* The guard of the constructor's loop.
LoopGuard(in, rec, mm) == in.status = Ok /\ Len(rec.m_moves) < mm

\* A bug: the loop goes on after an error item.
AfterItemErrorGoesOn(r) ==
    [item |-> r.item, in |-> r.in,
     rec |-> IF r.item = PgnTag THEN [r.rec EXCEPT !.m_hasTags = TRUE] ELSE r.rec,
     scan |-> r.scan, start |-> r.start,
     stop |-> r.item \in {PgnResult, PgnEmpty}]

\* What the constructor's loop does with the result r of readItem:
\* m_hasTags is set on a tag item and the loop is left on an error, a
\* result or an empty item.  r, with rec updated and stop added.
AfterItem(r) ==
    [item |-> r.item, in |-> r.in,
     rec |-> IF r.item = PgnTag THEN [r.rec EXCEPT !.m_hasTags = TRUE] ELSE r.rec,
     scan |-> r.scan, start |-> r.start,
     stop |-> r.item \in {PgnError, PgnResult, PgnEmpty}]

\* One iteration of the constructor's loop.
LoopBody(chars, in, rec, rnd) == AfterItem(ReadItem(chars, in, rec, rnd))

\* The loop goes on from the iteration's outcome b unless it said stop.
RECURSIVE RunLoop(_, _, _, _, _)
LoopOn(chars, b, mm, rnd) ==
    IF b.stop THEN [in |-> b.in, rec |-> b.rec]
    ELSE RunLoop(chars, b.in, b.rec, mm, rnd)

\* The constructor's loop, run to its end.  [in, rec].
RunLoop(chars, in, rec, mm, rnd) ==
    IF LoopGuard(in, rec, mm)
    THEN LoopOn(chars, LoopBody(chars, in, rec, rnd), mm, rnd)
    ELSE [in |-> in, rec |-> rec]

\* PgnGame::PgnGame(PgnFile& in, int maxMoves), as a function of the file.
PgnGameFromFile(chars, in, fv, mm, rnd) ==
    LET n == NewRecord(in, fv)
    IN RunLoop(chars, n.in, n.rec, mm, rnd)

\* ------------------------------------------------------------- the writer
\* QString::number
RECURSIVE NumberText(_)
NumberText(n) ==
    LET d == <<"0", "1", "2", "3", "4", "5", "6", "7", "8", "9">>[(n % 10) + 1]
    IN IF n < 10 THEN <<d>> ELSE Append(NumberText(n \div 10), d)

\* QDate::currentDate().toString("yyyy.MM.dd")
sDate == <<"2", "0", "0", "9", ".", "0", "1", ".", "0", "1">>

\* A tag pair as write() puts it out: [Name "value"] and a line break.
TagLine(name, value) == <<"[">> \o name \o <<" ", Q>> \o value \o <<Q, "]", LF>>

\* The move section of write(): moves i.. of the record, rendered on a
\* board that has replayed the moves before them.
RECURSIVE MoveText(_, _, _)
MoveText(b, moves, i) ==
    IF i >= Len(moves) THEN <<>>
    ELSE (IF i % 8 = 0 THEN <<LF>> ELSE <<>>)
         \o (IF i % 2 = 0 THEN NumberText(i \div 2 + 1) \o <<".", " ">> ELSE <<>>)
         \o MoveString(b, moves[i + 1]) \o <<" ">>
         \o MoveText(MakeMove(b, moves[i + 1]), moves, i + 1)

\* A bug: a record without tags is written like any other.
WriteTextWithoutTags(rec) ==
    TagLine(<<"D", "a", "t", "e">>, sDate)
    \o TagLine(sWhite, rec.m_whitePlayer)
    \o TagLine(sBlack, rec.m_blackPlayer)
    \o TagLine(sResult, ResultToString(rec.m_result))
    \o (IF rec.m_variant # Standard
        THEN TagLine(sVariant, VariantToString(rec.m_variant)) ELSE <<>>)
    \o (IF IsRandom(rec.m_variant) \/ rec.m_fen # StartingFen(rec.m_variant, <<>>)
        THEN TagLine(sFEN, rec.m_fen) ELSE <<>>)
    \o MoveText(SetBoard(NewBoard(rec.m_variant), rec.m_fen), rec.m_moves, 0)
    \o ResultToString(rec.m_result) \o <<LF, LF>>

\* A bug: the FEN tag is put out only for a starting position that differs
\* from startingFen().
WriteTextFenIfDiffers(rec) ==
    IF ~rec.m_hasTags THEN <<>>
    ELSE TagLine(<<"D", "a", "t", "e">>, sDate)
         \o TagLine(sWhite, rec.m_whitePlayer)
         \o TagLine(sBlack, rec.m_blackPlayer)
         \o TagLine(sResult, ResultToString(rec.m_result))
         \o (IF rec.m_variant # Standard
             THEN TagLine(sVariant, VariantToString(rec.m_variant)) ELSE <<>>)
         \o (IF rec.m_fen # StartingFen(rec.m_variant, <<>>)
             THEN TagLine(sFEN, rec.m_fen) ELSE <<>>)
         \o MoveText(SetBoard(NewBoard(rec.m_variant), rec.m_fen), rec.m_moves, 0)
         \o ResultToString(rec.m_result) \o <<LF, LF>>

\* PgnGame::write: the text appended to the destination; nothing for a
\* record without tags.
WriteText(rec) ==
    IF ~rec.m_hasTags THEN <<>>
    ELSE TagLine(<<"D", "a", "t", "e">>, sDate)
         \o TagLine(sWhite, rec.m_whitePlayer)
         \o TagLine(sBlack, rec.m_blackPlayer)
         \o TagLine(sResult, ResultToString(rec.m_result))
         \o (IF rec.m_variant # Standard
             THEN TagLine(sVariant, VariantToString(rec.m_variant)) ELSE <<>>)
         \o (IF IsRandom(rec.m_variant) \/ rec.m_fen # StartingFen(rec.m_variant, <<>>)
             THEN TagLine(sFEN, rec.m_fen) ELSE <<>>)
         \o MoveText(SetBoard(NewBoard(rec.m_variant), rec.m_fen), rec.m_moves, 0)
         \o ResultToString(rec.m_result) \o <<LF, LF>>

\* A call of write() on a destination that can or cannot be opened for
\* appending: whether QFile::open was called, whether text was put out,
\* and the text.
WriteCall(rec, canOpen) ==
    [opened |-> rec.m_hasTags,
     ok |-> rec.m_hasTags /\ canOpen,
     text |-> IF canOpen THEN WriteText(rec) ELSE <<>>]

\* PgnGame::PgnGame(const ChessGame*): the record of a played game.
RecordOfGame(white, black, b, result) ==
    [m_whitePlayer |-> white, m_blackPlayer |-> black, m_result |-> result,
     m_variant |-> b.variant, m_isRandomVariant |-> IsRandom(b.variant),
     m_hasTags |-> TRUE, m_fen |-> b.fen, m_moves |-> b.hist]

\* ------------------------------------------------------------- input streams
RECURSIVE Flatten(_)
Flatten(ts) == IF ts = <<>> THEN <<>> ELSE Head(ts) \o Flatten(Tail(ts))

\* Every sequence of at most n elements of S.
RECURSIVE SeqsUpTo(_, _)
SeqsUpTo(S, n) ==
    IF n = 0 THEN {<<>>}
    ELSE LET shorter == SeqsUpTo(S, n - 1)
         IN shorter \cup {Append(s, x) : s \in {t \in shorter : Len(t) = n - 1}, x \in S}

\* A tag pair as it is written: [Name "value"].
TagText(name, value) == <<"[">> \o name \o <<" ", Q>> \o value \o <<Q, "]">>

tWhite == TagText(sWhite, <<"A">>) \o <<LF>>
tVarF == TagText(sVariant, sFischerandom) \o <<LF>>
tVarBad == TagText(sVariant, <<"x">>) \o <<LF>>
tFenBlack == TagText(sFEN, FenBlack) \o <<LF>>
tFenBad == TagText(sFEN, <<"z">>) \o <<LF>>
tResBlack == TagText(sResult, sBlackWins) \o <<LF>>
tEvent == TagText(<<"E", "v">>, <<"x">>) \o <<LF>>
tE4 == sE4 \o <<" ">>
tE5 == sE5 \o <<" ">>
tNf3 == sNf3 \o <<" ">>
tStar == sNoResult \o <<LF>>
tNag300 == <<"$", "3", "0", "0", " ">>
tNum == <<"1", ".">>
tNumBare == <<"1", "2", " ">>
tEmptyTag == <<"[", "]", LF>>
\* A whole game that holds a Variant tag and a termination marker only.
gVarF == tVarF \o tStar

\* The fragments input streams are put together from, by family.
FamPlay == {tWhite, tVarF, gVarF, tE4, tE5, tNf3, tStar}
FamErr == {tEvent, tEmptyTag, tVarBad, tFenBad, tFenBlack, tE4, tE5, tNag300}

Families == {FamPlay, FamErr}

\* Fragments of comments: "(a(b", ")", "c)" put together give "(a(b)c)".
cOpenAB == <<"(", "a", "(", "b">>
cOpen == <<"(">>
cClose == <<")">>
cCloseC == <<"c", ")">>
cBrace == <<"{">>
cBraceClose == <<"}">>
cSpace == <<" ">>
cLF == <<LF>>

\* Fragments of items that may come without text.
cDollar == <<"$">>
cSemi == <<";">>
cTagOpen == <<"[">>
cTagClose == <<"]">>
cPercent == <<"%">>

\* Numeric annotation glyphs.
tNag0 == <<"$", "0", " ">>
tNag255 == <<"$", "2", "5", "5", " ">>
tNag256 == <<"$", "2", "5", "6", " ">>
tNagNeg == <<"$", "-", "1", " ">>
tNagPlus == <<"$", "+", "7", " ">>
tNagBad == <<"$", "x", " ">>
tNagBig == <<"$", "4", "2", "9", "4", "9", "6", "7", "2", "9", "7", " ">>

\* Items the builder passes over.
tBrace == <<"{", "a", " ", "b", "}">>
tLine == <<";", "c", LF>>
tNumDot == <<"1", "2", ".">>
tNumMove == <<"4", "e", " ">>

FamComment == {cOpenAB, cOpen, cClose, cCloseC, cBrace, cBraceClose, cSpace, cLF}
FamEmpty == {cDollar, cSemi, cTagOpen, cTagClose, cPercent, cSpace, cLF, tE4}
FamNag == {tNag0, tNag255, tNag256, tNagNeg, tNagPlus, tNagBad, tNagBig, tE4}
FamPass == {tBrace, tLine, tNumDot, tNumBare, tNumMove, tEvent, tNag255, tE4, tE5}

ItemFamilies == {FamComment, FamEmpty, FamNag, FamPass}

\* The variants a PgnFile is opened with.
FileVariants == {NoVariant, Standard}

\* The maxMoves arguments tried.
MovesArgs == {0 - 1, 0, 1, MaxMovesArg}

\* ------------------------------------------------------------- the chess player
\* ChessPlayer keeps a TimeControl and a QTimer.  A TimeControl is
\* [timePerTc, timePerMove, timeLeft, elapsed]: the time of a time control,
\* the time for each move, the time the player has left, and the time its
\* clock has measured since it was
\* started.  A QTimer is [active, singleShot, interval, ran]: ran is the
\* time it has run since it was started, up to its interval.

\* The longest time a time control gives a player.
MaxTime == 2

\* The most signals a player emits between two calls of go() in the model.
MaxSignals == 3

\* The clock is followed until the player has overrun its time by this much.
Overrun == 1

\* The moves a player hands to emitMove.
PlayerMoves == {1, 2}

\* TimeControl::TimeControl()
NewTimeControl == [timePerTc |-> 0, timePerMove |-> 0, timeLeft |-> 0, elapsed |-> 0]

\* TimeControl::startTimer
StartTimer(tc) == [tc EXCEPT !.elapsed = 0]

\* TimeControl::update: the time measured is taken off the time left.
Update(tc) == [tc EXCEPT !.timeLeft = @ - tc.elapsed, !.elapsed = 0]

\* A bug: the timer keeps firing at its interval.
NewTimerRepeating == [active |-> FALSE, singleShot |-> FALSE, interval |-> 0, ran |-> 0]

\* The player's QTimer as the constructor leaves it: setSingleShot(true).
NewTimer == [active |-> FALSE, singleShot |-> TRUE, interval |-> 0, ran |-> 0]

\* QTimer::start(int msec)
TimerStart(t, msec) == [t EXCEPT !.active = TRUE, !.interval = msec, !.ran = 0]

\* QTimer::stop
TimerStop(t) == [t EXCEPT !.active = FALSE]

\* The timer after it has fired: a single-shot timer is no longer active,
\* another one starts its interval again.
TimerShot(t) == [t EXCEPT !.active = ~t.singleShot, !.ran = 0]

\* The signals of a player.
SigTimeout == [sig |-> "timeout", arg |-> 0]
SigMoveMade(move) == [sig |-> "moveMade", arg |-> move]
SigStartedThinking(timeLeft) == [sig |-> "startedThinking", arg |-> timeLeft]

\* A bug: a move made after the time ran out emits timeout whether or not
\* the timer is still running.
EmitMoveIgnoringTimer(tc, t, move) ==
    LET late == Update(tc).timeLeft <= 0
    IN [tc |-> Update(tc),
        t |-> IF t.active THEN TimerStop(t) ELSE t,
        trace |-> <<"update">>
                  \o (IF t.active THEN <<"stop">> ELSE <<>>)
                  \o (IF late THEN <<"timeout">> ELSE <<>>)
                  \o <<"moveMade">>,
        signals |-> (IF late THEN <<SigTimeout>> ELSE <<>>) \o <<SigMoveMade(move)>>]

\* ChessPlayer::emitMove on a player with time control tc and timer t:
\* the time control and the timer afterwards, what the call did in order
\* (trace) and the signals it emitted.
EmitMoveCall(tc, t, move) ==
    LET late == t.active /\ Update(tc).timeLeft <= 0
    IN [tc |-> Update(tc),
        t |-> IF t.active THEN TimerStop(t) ELSE t,
        trace |-> <<"update">>
                  \o (IF t.active THEN <<"stop">> ELSE <<>>)
                  \o (IF late THEN <<"timeout">> ELSE <<>>)
                  \o <<"moveMade">>,
        signals |-> (IF late THEN <<SigTimeout>> ELSE <<>>) \o <<SigMoveMade(move)>>]

\* ------------------------------------------------------------- state
VARIABLES
    toks,            \* the fragments the stream was put together from
    chars,           \* the stream's text
    fileVariant,     \* PgnFile::variant()
    pos, status,     \* the stream: characters consumed, QTextStream status
    board,           \* PgnFile::board()
    m_whitePlayer, m_blackPlayer, m_result, m_variant, m_isRandomVariant,
    m_hasTags, m_fen, m_moves,      \* the record under construction
    maxMoves,        \* the constructor's argument
    pc,              \* "idle", "loop" (inside the constructor's loop), "done"
    gameNo,          \* records constructed from the stream so far
    startPos, startStatus,          \* the stream when the constructor was entered
    nItems,          \* readItem calls made for this record
    last,            \* the last readItem call: its item and scanner locals
    rnd,             \* the position drawn by startingFen() for this record
    seen,            \* what this record's items have been: a tag with text, a
                     \* FEN tag, a decoded move; whether it follows a rewind
    orig,            \* the record last handed to write()
    writes,          \* calls of write() so far
    lastWrite,       \* the last call of write(): [opened, ok, text]
    scan,            \* readItem while it runs: its locals (s), where the item
                     \* started (start), what it returned (ret) and the
                     \* position startingFen() drew for it (draw)
    m_timeControl, m_timer,         \* the player's time control and timer
    signals,         \* the signals the player has emitted since go() was called
    lastEmit,        \* the last call of emitMove: its move, what it did in
                     \* order, and a bit that every call flips
    ended            \* endGame() has been called since go() was

recVars == <<m_whitePlayer, m_blackPlayer, m_result, m_variant, m_isRandomVariant,
             m_hasTags, m_fen, m_moves>>
writeVars == <<writes, lastWrite>>
playerVars == <<m_timeControl, m_timer, signals, lastEmit, ended>>
pgnVars == <<toks, chars, fileVariant, pos, status, board, recVars, maxMoves,
             gameNo, startPos, startStatus, nItems, last, rnd, seen, orig, writeVars,
             scan>>
vars == <<toks, chars, fileVariant, pos, status, board, recVars, maxMoves, pc,
          gameNo, startPos, startStatus, nItems, last, rnd, seen, orig, writeVars,
          scan, playerVars>>

In == [pos |-> pos, status |-> status, board |-> board]

Rec ==
    [m_whitePlayer |-> m_whitePlayer, m_blackPlayer |-> m_blackPlayer,
     m_result |-> m_result, m_variant |-> m_variant,
     m_isRandomVariant |-> m_isRandomVariant, m_hasTags |-> m_hasTags,
     m_fen |-> m_fen, m_moves |-> m_moves]

SetIn(in) == pos' = in.pos /\ status' = in.status /\ board' = in.board

SetRec(rec) ==
    /\ m_whitePlayer' = rec.m_whitePlayer
    /\ m_blackPlayer' = rec.m_blackPlayer
    /\ m_result' = rec.m_result
    /\ m_variant' = rec.m_variant
    /\ m_isRandomVariant' = rec.m_isRandomVariant
    /\ m_hasTags' = rec.m_hasTags
    /\ m_fen' = rec.m_fen
    /\ m_moves' = rec.m_moves

NoLast == [item |-> "none", itemType |-> "none", start |-> 0, str |-> <<>>,
           rewound |-> FALSE]
NoWrite == [opened |-> FALSE, ok |-> FALSE, text |-> <<>>]
NoScan == [s |-> ScanStart(0, Ok), start |-> 0, ret |-> [item |-> "none"], draw |-> <<>>]
NoEmit == [move |-> 0, trace |-> <<>>, flip |-> FALSE]
NoSeen == [tag |-> FALSE, fen |-> FALSE, move |-> FALSE, afterRewind |-> FALSE]

\* A PgnFile opened on a text: nothing consumed, and a board of the file's
\* variant (of the standard variant when the file has none).
OpenFile(fv) ==
    [pos |-> 0, status |-> Ok,
     board |-> NewBoard(IF fv = NoVariant THEN Standard ELSE fv)]

InitOn(ts, fv, p) ==
    /\ toks = ts
    /\ chars = Flatten(ts)
    /\ fileVariant = fv
    /\ pos = OpenFile(fv).pos
    /\ status = OpenFile(fv).status
    /\ board = OpenFile(fv).board
    /\ m_whitePlayer = EmptyRecord.m_whitePlayer
    /\ m_blackPlayer = EmptyRecord.m_blackPlayer
    /\ m_result = EmptyRecord.m_result
    /\ m_variant = EmptyRecord.m_variant
    /\ m_isRandomVariant = EmptyRecord.m_isRandomVariant
    /\ m_hasTags = EmptyRecord.m_hasTags
    /\ m_fen = EmptyRecord.m_fen
    /\ m_moves = EmptyRecord.m_moves
    /\ maxMoves = 0
    /\ pc = p
    /\ gameNo = 0
    /\ startPos = 0
    /\ startStatus = Ok
    /\ nItems = 0
    /\ last = NoLast
    /\ rnd = <<>>
    /\ seen = NoSeen
    /\ orig = EmptyRecord
    /\ writes = 0
    /\ lastWrite = NoWrite
    /\ scan = NoScan
    /\ m_timeControl = NewTimeControl
    /\ m_timer = NewTimer
    /\ signals = <<>>
    /\ lastEmit = NoEmit
    /\ ended = FALSE

Init ==
    \E fam \in Families : \E ts \in SeqsUpTo(fam, MaxToks) :
        \E fv \in FileVariants : InitOn(ts, fv, "idle")

\* PgnGame::PgnGame(PgnFile&, int maxMoves) is entered.  The caller reads
\* every game of a stream with the same maxMoves.
Construct ==
    /\ pc \in {"idle", "done"}
    /\ gameNo < MaxGames
    /\ \E mm \in (IF gameNo = 0 THEN MovesArgs ELSE {maxMoves}) :
        LET n == NewRecord(In, fileVariant)
        IN /\ SetIn(n.in)
           /\ SetRec(n.rec)
           /\ maxMoves' = mm
    /\ pc' = "loop"
    /\ gameNo' = gameNo + 1
    /\ startPos' = pos
    /\ startStatus' = status
    /\ nItems' = 0
    /\ rnd' = <<>>
    /\ seen' = [NoSeen EXCEPT !.afterRewind = last.rewound]
    /\ UNCHANGED <<toks, chars, fileVariant, last, orig, writeVars,
                   scan, playerVars>>

\* The state after an iteration of the loop whose outcome is b, draw being
\* the position startingFen() drew if it was called.
Iterated(b, draw) ==
    /\ SetIn(b.in)
    /\ SetRec(b.rec)
    /\ pc' = IF b.stop THEN "done" ELSE "loop"
    /\ last' = [item |-> b.item, itemType |-> b.scan.itemType, start |-> b.start,
                str |-> Trimmed(b.scan.str), rewound |-> b.scan.ctl = "error"]
    /\ rnd' = IF /\ b.scan.itemType = PgnMove /\ m_fen = <<>> /\ b.rec.m_fen # <<>>
                 /\ IsRandom(board.variant)
              THEN draw ELSE rnd
    /\ seen' = [seen EXCEPT
                  !.tag = @ \/ (b.scan.itemType = PgnTag /\ Trimmed(b.scan.str) # <<>>),
                  !.fen = @ \/ (b.scan.itemType = PgnTag
                                 /\ SectionFirst(Trimmed(b.scan.str)) = sFEN),
                  !.move = @ \/ b.item = PgnMove]

\* One iteration of the constructor's loop.
ReadNext ==
    /\ pc = "loop"
    /\ LoopGuard(In, Rec, maxMoves)
    /\ \E draw \in (IF IsRandom(board.variant) /\ m_fen = <<>> THEN RandomFens ELSE {<<>>}) :
          Iterated(LoopBody(chars, In, Rec, draw), draw)
    /\ nItems' = nItems + 1
    /\ UNCHANGED <<toks, chars, fileVariant, maxMoves, gameNo, startPos, startStatus, orig,
                   writeVars, scan, playerVars>>

\* The loop's guard fails: the constructor returns.
LoopExit ==
    /\ pc = "loop"
    /\ ~LoopGuard(In, Rec, maxMoves)
    /\ pc' = "done"
    /\ UNCHANGED <<toks, chars, fileVariant, pos, status, board, recVars, maxMoves,
                   gameNo, startPos, startStatus, nItems, last, rnd, seen, orig, writeVars,
                   scan, playerVars>>

Next == Construct \/ ReadNext \/ LoopExit

Spec == Init /\ [][Next]_vars

\* ------------------------------------------------------------- well-formed games
\* A well-formed single game: tags, then legal moves with move numbers
\* among them, then a termination marker, then what follows the game.
WFTags == {tWhite, tResBlack, tFenBlack}
WFMoveToks == {tE4, tE5, tNf3}
WFBody == WFMoveToks \cup {tNum, tNumBare}
WFTrailers == {<<>>, <<" ", "x">>}

\* The moves that a sequence of fragments spells.
WFMoves(ts) ==
    LET ms == SelectSeq(ts, LAMBDA x : x \in WFMoveToks)
    IN [i \in 1..Len(ms) |-> MoveFromString(NewBoard(Standard), Trimmed(ms[i]))]

RECURSIVE LegalSeq(_, _)
LegalSeq(b, moves) ==
    \/ moves = <<>>
    \/ /\ IsLegalMove(b, Head(moves))
       /\ LegalSeq(MakeMove(b, Head(moves)), Tail(moves))

\* The position the game of these fragments starts from.
WFStart(ts) ==
    IF \E i \in 1..Len(ts) : ts[i] = tFenBlack THEN FenBlack ELSE FenStd

WellFormed(ts) ==
    /\ \E k \in 1..Len(ts) :
          /\ \A i \in 1..k : ts[i] \in WFTags
          /\ \A i \in (k + 1)..Len(ts) : ts[i] \in WFBody
    /\ LegalSeq(SetBoard(NewBoard(Standard), WFStart(ts)), WFMoves(ts))

InitWF ==
    \E ts \in {x \in SeqsUpTo(WFTags \cup WFBody, MaxToks) : WellFormed(x)} :
        \E term \in Terminators : \E trailer \in WFTrailers :
            \E fv \in FileVariants : InitOn(ts \o <<term, trailer>>, fv, "idle")

SpecWF == InitWF /\ [][Next]_vars

\* ------------------------------------------------------------- items after a tag
\* Streams that open with a White tag, so that what follows is classified.
InitItems ==
    \E fam \in ItemFamilies : \E ts \in SeqsUpTo(fam, MaxToks) :
        InitOn(<<tWhite>> \o ts, NoVariant, "idle")

SpecItems == InitItems /\ [][Next]_vars

\* ------------------------------------------------------------- write, then read
\* The legal move sequences of at most n moves from board b.
RECURSIVE LegalHists(_, _)
LegalHists(b, n) ==
    {b} \cup (IF n = 0 THEN {}
             ELSE UNION {LegalHists(MakeMove(b, m), n - 1) :
                            m \in {x \in {MvE4, MvNf3, MvE5} : IsLegalMove(b, x)}})

\* The boards of played games: a variant, a starting position of it, and
\* legal moves made from there.
GameBoards ==
    UNION {LegalHists(SetBoard(NewBoard(Standard), f), MaxMovesArg - 1) : f \in {FenStd, FenBlack}}
    \cup UNION {LegalHists(SetBoard(NewBoard(Fischerandom), f), MaxMovesArg - 1) : f \in RandomFens}

PlayerNames == {<<>>, <<"A">>, <<"A", " ", "B">>}
GameResults == {WhiteWins, BlackWins, Draw, NoResult}

\* PgnGame::PgnGame(const ChessGame*) is called on a played game.
Snapshot ==
    /\ pc = "nogame"
    /\ \E white \in PlayerNames : \E black \in {<<>>, <<"B">>} :
         \E b \in GameBoards : \E result \in GameResults :
            SetRec(RecordOfGame(white, black, b, result))
    /\ pc' = "record"
    /\ UNCHANGED <<toks, chars, fileVariant, pos, status, board, maxMoves, gameNo,
                   startPos, startStatus, nItems, last, rnd, seen, orig, writeVars,
                   scan, playerVars>>

\* PgnGame::write appends the record to the file the stream is then read
\* from.
Write ==
    /\ pc = "record"
    /\ \E canOpen \in BOOLEAN :
          /\ lastWrite' = WriteCall(Rec, canOpen)
          /\ chars' = chars \o WriteCall(Rec, canOpen).text
    /\ writes' = writes + 1
    /\ orig' = Rec
    /\ pc' = "idle"
    /\ UNCHANGED <<toks, fileVariant, pos, status, board, recVars, maxMoves, gameNo,
                   startPos, startStatus, nItems, last, rnd, seen,
                   scan, playerVars>>

\* PgnGame::write is called on a record that was read from the stream; the
\* destination is another file.
WriteOut ==
    /\ pc = "done"
    /\ \E canOpen \in BOOLEAN : lastWrite' = WriteCall(Rec, canOpen)
    /\ writes' = writes + 1
    /\ orig' = Rec
    /\ pc' = "idle"
    /\ UNCHANGED <<toks, chars, fileVariant, pos, status, board, recVars, maxMoves,
                   gameNo, startPos, startStatus, nItems, last, rnd, seen,
                   scan, playerVars>>

InitRT == \E fv \in FileVariants : InitOn(<<>>, fv, "nogame")

NextRT == Snapshot \/ Write \/ Construct \/ ReadNext \/ LoopExit

SpecRT == InitRT /\ [][NextRT]_vars

\* Records of played games and records read from streams are written.
FamWrite == {tWhite, tVarF, tVarBad, tFenBad, tFenBlack, tE4, tStar}

InitWrite ==
    \/ InitRT
    \/ \E ts \in SeqsUpTo(FamWrite, MaxToks) : \E fv \in FileVariants :
          InitOn(ts, fv, "idle")

NextWrite == Snapshot \/ Write \/ WriteOut \/ Construct \/ ReadNext \/ LoopExit

SpecWrite == InitWrite /\ [][NextWrite]_vars

\* ------------------------------------------------------------- the loops, step by step
\* The constructor's loop with readItem's own loop taken one iteration at
\* a time.  The stream's position and status follow the scanner.

\* readItem is entered: skipWhiteSpace, and the locals are initialised.
ItemEnter ==
    /\ pc = "loop"
    /\ LoopGuard(In, Rec, maxMoves)
    /\ pos' = SkipWhiteSpace(chars, pos)
    /\ scan' = [NoScan EXCEPT !.s = ScanStart(SkipWhiteSpace(chars, pos), status),
                              !.start = SkipWhiteSpace(chars, pos)]
    /\ pc' = "scan"
    /\ UNCHANGED <<toks, chars, fileVariant, status, board, recVars, maxMoves, gameNo,
                   startPos, startStatus, nItems, last, rnd, seen, orig, writeVars,
                   playerVars>>

\* The guard of readItem's loop, and the breaks and the return in it.
ScanGoesOn(s) == s.status = Ok /\ s.ctl = "run"

\* One iteration of readItem's loop.
ScanIter ==
    /\ pc = "scan"
    /\ ScanGoesOn(scan.s)
    /\ scan' = [scan EXCEPT !.s = ScanStep(chars, scan.s, m_hasTags, Len(m_moves))]
    /\ pos' = ScanStep(chars, scan.s, m_hasTags, Len(m_moves)).pos
    /\ status' = ScanStep(chars, scan.s, m_hasTags, Len(m_moves)).status
    /\ UNCHANGED <<toks, chars, fileVariant, board, recVars, maxMoves, pc, gameNo,
                   startPos, startStatus, nItems, last, rnd, seen, orig, writeVars,
                   playerVars>>

\* readItem's loop is left: the item is interpreted and readItem returns.
ItemReturn ==
    /\ pc = "scan"
    /\ ~ScanGoesOn(scan.s)
    /\ \E draw \in (IF IsRandom(board.variant) /\ m_fen = <<>> THEN RandomFens ELSE {<<>>}) :
          scan' = [scan EXCEPT !.ret = InterpretItem(In, Rec, draw, scan.s, scan.start),
                               !.draw = draw]
    /\ pc' = "returned"
    /\ UNCHANGED <<toks, chars, fileVariant, pos, status, board, recVars, maxMoves,
                   gameNo, startPos, startStatus, nItems, last, rnd, seen, orig, writeVars,
                   playerVars>>

\* The constructor's loop takes what readItem returned, and goes on or is
\* left.
ItemTaken ==
    /\ pc = "returned"
    /\ Iterated(AfterItem(scan.ret), scan.draw)
    /\ scan' = NoScan
    /\ UNCHANGED <<toks, chars, fileVariant, maxMoves, gameNo, startPos, startStatus,
                   nItems, orig, writeVars, playerVars>>

\* Streams with brackets that are not closed, games that are not
\* terminated, text without tags, and escaped and commented lines.
FamSteps == {tWhite, tE4, cOpen, cClose, cTagOpen, cPercent, cSemi}

InitSteps ==
    \E ts \in SeqsUpTo(FamSteps, MaxToks) : \E fv \in FileVariants : InitOn(ts, fv, "idle")

NextSteps == Construct \/ ItemEnter \/ ScanIter \/ ItemReturn \/ ItemTaken \/ LoopExit

\* A step of the constructor once it has been called.
ConstructorStep == ItemEnter \/ ScanIter \/ ItemReturn \/ ItemTaken \/ LoopExit

\* The constructor is sequential code: once it is called, its next step is
\* taken.  Whether it is called again is up to the caller.
SpecSteps == InitSteps /\ [][NextSteps]_vars /\ WF_vars(ConstructorStep)

\* ------------------------------------------------------------- all games of a stream
\* A caller reads game after game with the same maxMoves >= 1 for as long
\* as the stream has not come to its end.  The number of games is capped
\* by the length of the text.
ConstructNext ==
    /\ pc \in {"idle", "done"}
    /\ status = Ok /\ pos < Len(chars)
    /\ gameNo < Len(chars)
    /\ \E mm \in (IF gameNo = 0 THEN {1, MaxMovesArg} ELSE {maxMoves}) :
        LET n == NewRecord(In, fileVariant)
        IN /\ SetIn(n.in)
           /\ SetRec(n.rec)
           /\ maxMoves' = mm
    /\ pc' = "loop"
    /\ gameNo' = gameNo + 1
    /\ startPos' = pos
    /\ startStatus' = status
    /\ nItems' = 0
    /\ rnd' = <<>>
    /\ seen' = [NoSeen EXCEPT !.afterRewind = last.rewound]
    /\ UNCHANGED <<toks, chars, fileVariant, last, orig, writeVars,
                   scan, playerVars>>

NextGames == ConstructNext \/ ItemEnter \/ ScanIter \/ ItemReturn \/ ItemTaken \/ LoopExit

\* The constructor runs to its end, and the caller goes on to the next
\* game.
SpecGames ==
    /\ InitSteps /\ [][NextGames]_vars
    /\ WF_vars(ConstructorStep) /\ WF_vars(ConstructNext)

\* ------------------------------------------------------------- the player's calls
\* The calls made on a ChessPlayer, its timer firing, and time passing.
\* The timer's signal is delivered by the event loop of the player's thread:
\* it never runs inside another call.

\* ChessPlayer::newGame
NewGame ==
    /\ pc = "player"
    /\ m_timeControl' = [m_timeControl EXCEPT !.timeLeft = m_timeControl.timePerTc]
    /\ UNCHANGED <<pgnVars, pc, m_timer, signals, lastEmit, ended>>

\* ChessPlayer::setTimeControl
SetTimeControl ==
    /\ pc = "player"
    /\ \E per \in {0, MaxTime} : \E left \in 0..MaxTime :
          m_timeControl' = [timePerTc |-> per, timePerMove |-> IF per = 0 THEN left ELSE 0,
                            timeLeft |-> left, elapsed |-> 0]
    /\ UNCHANGED <<pgnVars, pc, m_timer, signals, lastEmit, ended>>

\* ChessPlayer::go
Go ==
    /\ pc = "player"
    /\ signals' = IF m_timeControl.timePerTc # 0
                  THEN <<SigStartedThinking(m_timeControl.timeLeft)>>
                  ELSE IF m_timeControl.timePerMove # 0
                  THEN <<SigStartedThinking(m_timeControl.timePerMove)>>
                  ELSE <<>>
    /\ m_timeControl' = StartTimer(m_timeControl)
    /\ m_timer' = TimerStart(m_timer, m_timeControl.timeLeft)
    /\ ended' = FALSE
    /\ UNCHANGED <<pgnVars, pc, lastEmit>>

\* ChessPlayer::makeBookMove
MakeBookMove ==
    /\ pc = "player"
    /\ m_timeControl' = Update(StartTimer(m_timeControl))
    /\ UNCHANGED <<pgnVars, pc, m_timer, signals, lastEmit, ended>>

\* ChessPlayer::endGame
EndGame ==
    /\ pc = "player"
    /\ m_timer' = TimerStop(m_timer)
    /\ ended' = TRUE
    /\ UNCHANGED <<pgnVars, pc, m_timeControl, signals, lastEmit>>

\* ChessPlayer::emitMove
EmitMove ==
    /\ pc = "player"
    /\ Len(signals) < MaxSignals
    /\ \E move \in PlayerMoves :
          /\ m_timeControl' = EmitMoveCall(m_timeControl, m_timer, move).tc
          /\ m_timer' = EmitMoveCall(m_timeControl, m_timer, move).t
          /\ signals' = signals \o EmitMoveCall(m_timeControl, m_timer, move).signals
          /\ lastEmit' = [move |-> move,
                          trace |-> EmitMoveCall(m_timeControl, m_timer, move).trace,
                          flip |-> ~lastEmit.flip]
    /\ UNCHANGED <<pgnVars, pc, ended>>

\* The timer's interval has passed and the event loop delivers its
\* timeout, which is connected to the player's timeout signal.
TimerFire ==
    /\ pc = "player"
    /\ m_timer.active /\ m_timer.ran >= m_timer.interval
    /\ Len(signals) < MaxSignals
    /\ signals' = Append(signals, SigTimeout)
    /\ m_timer' = TimerShot(m_timer)
    /\ UNCHANGED <<pgnVars, pc, m_timeControl, lastEmit, ended>>

\* Time passes.
Tick ==
    /\ pc = "player"
    /\ m_timeControl.timeLeft - m_timeControl.elapsed > 0 - Overrun
    /\ m_timeControl' = [m_timeControl EXCEPT !.elapsed = @ + 1]
    /\ m_timer' = IF m_timer.active /\ m_timer.ran < m_timer.interval
                  THEN [m_timer EXCEPT !.ran = @ + 1]
                  ELSE m_timer
    /\ UNCHANGED <<pgnVars, pc, signals, lastEmit, ended>>

InitPlayer == InitOn(<<>>, Standard, "player")

NextPlayer ==
    NewGame \/ SetTimeControl \/ Go \/ MakeBookMove \/ EndGame \/ EmitMove \/ TimerFire \/ Tick

SpecPlayer == InitPlayer /\ [][NextPlayer]_vars

\* ------------------------------------------------------------- properties
\* A board of variant v set to fen, after the moves have been made on it.
RECURSIVE Replay(_, _)
Replay(b, moves) ==
    IF moves = <<>> THEN b ELSE Replay(MakeMove(b, Head(moves)), Tail(moves))

ReplayFrom(v, fen, moves) == Replay(SetBoard(NewBoard(v), fen), moves)

Building == pc \in {"loop", "done"}

\* C1: while a record is built from a stream, after every scanned item each
\* move of the move list is legal in the position reached by replaying the
\* moves before it from startingPosition (by the rules in force on the
\* parsing board), and whenever startingPosition is a position the board
\* accepts, the parsing board's position is the replay of the whole list
\* from startingPosition.
C1_MovesAreLegalContinuation ==
    Building =>
        /\ \A k \in 0..(Len(m_moves) - 1) :
              IsLegalMove(ReplayFrom(board.variant, m_fen, SubSeq(m_moves, 1, k)),
                          m_moves[k + 1])
        /\ (m_fen \in ValidFens => board = ReplayFrom(board.variant, m_fen, m_moves))

C1_Witness ==
    pc = "loop" /\ Len(m_moves) >= 2 /\ last.item = PgnMove

\* The next character readItem will read is c: the first one after the
\* whitespace it skips.
NextCharIs(c) ==
    LET p == SkipWhiteSpace(chars, pos)
    IN p < Len(chars) /\ chars[p + 1] = c

\* The parts of a well-formed game's fragments.
WFTerm == toks[Len(toks) - 1]
WFTrailer == toks[Len(toks)]
WFGame == SubSeq(toks, 1, Len(toks) - 2)
WFTermEnd == Len(chars) - Len(WFTrailer)

\* C2, as stated: for a well-formed single game with N legal moves and
\* N < maxMoves, the record holds exactly those moves in order, its result
\* is the termination marker's even when a Result tag said otherwise, and
\* the constructor returns on the result item, having consumed nothing
\* after the marker.
C2_NothingConsumedAfterMarker ==
    (pc = "done" /\ gameNo = 1 /\ Len(WFMoves(WFGame)) < maxMoves) =>
        /\ m_moves = WFMoves(WFGame)
        /\ m_result = ResultFromString(WFTerm)
        /\ last.item = PgnResult
        /\ pos <= WFTermEnd

\* C2, amended: for a well-formed single game with N legal moves and
\* N < maxMoves, the record holds exactly those moves in order, its result
\* is the termination marker's even when a Result tag said otherwise, and
\* the constructor returns on the result item, having consumed nothing
\* after the marker but the one white-space character that ends it.
C2_WellFormedGameDecodes ==
    (pc = "done" /\ gameNo = 1 /\ Len(WFMoves(WFGame)) < maxMoves) =>
        /\ m_moves = WFMoves(WFGame)
        /\ m_result = ResultFromString(WFTerm)
        /\ last.item = PgnResult
        /\ pos <= WFTermEnd + 1
        /\ (pos = WFTermEnd + 1 => IsSpace(chars[pos]))

C2_Witness ==
    /\ pc = "done" /\ gameNo = 1 /\ Len(m_moves) = 2 /\ last.item = PgnResult
    /\ m_result = WhiteWins
    /\ \E i \in 1..Len(toks) : toks[i] = tResBlack
    /\ WFTrailer # <<>> /\ pos = WFTermEnd + 1

\* C3: a record with tags that is written to a file and read back gives a record
\* with the same player names, result, variant, starting position and
\* moves, and the read ends on the result item.
C3_RoundTrip ==
    (pc = "done" /\ gameNo = 1 /\ orig.m_hasTags /\ lastWrite.ok
        /\ Len(orig.m_moves) < maxMoves) =>
        /\ m_whitePlayer = orig.m_whitePlayer
        /\ m_blackPlayer = orig.m_blackPlayer
        /\ m_result = orig.m_result
        /\ m_variant = orig.m_variant
        /\ m_fen = orig.m_fen
        /\ m_moves = orig.m_moves
        /\ last.item = PgnResult

\* C4: when the item that starts at a '[' is read while the record holds a
\* move, readItem returns PgnError, the record is unchanged, the stream is
\* left exactly at that '[', and the constructor returns; the next record
\* constructed from the stream starts its first item, a tag, at that '['.
C4_TagAfterMovesRewinds ==
    /\ [][(pc = "loop" /\ LoopGuard(In, Rec, maxMoves) /\ m_moves # <<>> /\ NextCharIs("["))
            => /\ last'.item = PgnError
               /\ UNCHANGED recVars
               /\ pos' = SkipWhiteSpace(chars, pos)
               /\ chars[pos' + 1] = "["
               /\ pc' = "done"]_vars
    /\ [][(pc = "loop" /\ nItems = 0 /\ seen.afterRewind /\ LoopGuard(In, Rec, maxMoves))
            => /\ last'.itemType = PgnTag
               /\ last'.start = pos
               /\ chars[pos + 1] = "["
               /\ ~last'.rewound]_vars

C4_Witness ==
    /\ seen.afterRewind /\ nItems = 1 /\ last.item = PgnTag /\ m_hasTags
    /\ last.start = startPos

\* C5: the record built for a game is the one the constructor builds from
\* the same stream position with a board of its own, whatever the games
\* read before it did to the stream's board.
C5_GamesAreIndependent ==
    pc = "done" =>
        Rec = PgnGameFromFile(chars,
                              [pos |-> startPos, status |-> startStatus,
                               board |-> OpenFile(fileVariant).board],
                              fileVariant, maxMoves, rnd).rec

\* C6: when an item yields PgnError, every field of the record holds the
\* value it had before that item was scanned, and no further item is read.
C6_ErrorLeavesRecord ==
    [][(pc = "loop" /\ last'.item = PgnError /\ nItems' = nItems + 1)
         => (UNCHANGED recVars /\ pc' = "done")]_vars

\* C7: if a bracketed tag was scanned while the record was constructed,
\* m_hasTags is true when the constructor returns.
C7_HasTagsOnceTagScanned ==
    (pc = "done" /\ seen.tag) => m_hasTags

\* C8: the loop reads no item after an error, result or empty item and
\* none once the move list holds maxMoves moves; the move list never holds
\* more than max(maxMoves, 0) moves, and with maxMoves <= 0 nothing is read.
C8_LoopIsBounded ==
    /\ [](Building => /\ Len(m_moves) <= (IF maxMoves > 0 THEN maxMoves ELSE 0)
                      /\ (maxMoves <= 0 => nItems = 0 /\ pos = startPos))
    /\ [][(gameNo' = gameNo /\ (nItems' # nItems \/ pos' # pos))
            => /\ Len(m_moves) < maxMoves
               /\ (nItems = 0 \/ last.item \notin {PgnError, PgnResult, PgnEmpty})]_vars

C8_Witness ==
    pc = "done" /\ maxMoves > 0 /\ Len(m_moves) = maxMoves /\ pos < Len(chars)

\* C9: if no FEN tag was supplied, then once a move item has been decoded
\* startingPosition is a standard starting position of the record's own
\* variant; startingPosition is not empty when the move list is not.
C9_DefaultStartOfOwnVariant ==
    Building =>
        /\ ((~seen.fen /\ seen.move) => m_fen \in StartingFens(m_variant))
        /\ (m_moves # <<>> => m_fen # <<>>)

\* C10: a record holds no move unless it has tags, and as long as it has no
\* tags readItem returns nothing but tag, empty and error items.
C10_NoMoveBeforeTag ==
    Building =>
        /\ (m_moves # <<>> => m_hasTags)
        /\ ((nItems > 0 /\ ~m_hasTags) => last.item \in {PgnEmpty, PgnError})

C10_Witness ==
    /\ m_moves # <<>> /\ m_hasTags
    /\ gameNo = 1 /\ chars[1] # "[" /\ ~IsSpace(chars[1])

\* The position just after the closer that brings the depth of the bracket
\* kind open .. close back to zero, looking from index i on at depth d; the
\* end of the text if there is none.
RECURSIVE MatchFrom(_, _, _, _, _)
MatchFrom(cs, i, open, close, d) ==
    IF i > Len(cs) THEN Len(cs)
    ELSE IF cs[i] = open THEN MatchFrom(cs, i + 1, open, close, d + 1)
    ELSE IF cs[i] = close
         THEN IF d = 1 THEN i ELSE MatchFrom(cs, i + 1, open, close, d - 1)
    ELSE MatchFrom(cs, i + 1, open, close, d)

\* Where the comment that opens at the bracket after position p ends.
CommentEnd(cs, p) ==
    MatchFrom(cs, p + 2, cs[p + 1], IF cs[p + 1] = "(" THEN ")" ELSE "}", 1)

\* The next item opens a comment: the record has tags and the item's first
\* character is '(' or '{'.
CommentOpens ==
    /\ pc = "loop" /\ LoopGuard(In, Rec, maxMoves) /\ m_hasTags
    /\ (NextCharIs("(") \/ NextCharIs("{"))

\* C11: a comment opened by '(' or '{' is consumed as one Comment item
\* that ends at the closer which brings the depth of that bracket kind back
\* to zero, or at the end of the stream if there is none: nested openers
\* raise the depth, and inner closers, spaces and line breaks do not end it.
C11_CommentIsOneItem ==
    [][CommentOpens
         => /\ last'.item = PgnComment
            /\ last'.itemType = PgnComment
            /\ last'.start = SkipWhiteSpace(chars, pos)
            /\ pos' = CommentEnd(chars, SkipWhiteSpace(chars, pos))]_vars

\* The text that follows the character after position p, up to the next
\* white space or the end of the text.
RECURSIVE TextUpToSpace(_, _)
TextUpToSpace(cs, i) ==
    IF i > Len(cs) \/ IsSpace(cs[i]) THEN <<>>
    ELSE <<cs[i]>> \o TextUpToSpace(cs, i + 1)

\* The text of the NAG whose '$' is the first character after the white
\* space at the stream's position.
NagText == TextUpToSpace(chars, SkipWhiteSpace(chars, pos) + 2)

\* A text the scanner accumulates as it stands: it does not open a bracket,
\* and does not start with a character that is special in front of a token.
PlainText(s) ==
    /\ s # <<>>
    /\ Head(s) \notin {";", "%", ".", "$"}
    /\ \A i \in 1..Len(s) : s[i] \notin {"(", "{", "["}

\* A decimal numeral for an integer in 0..255: an optional sign, zeros, then
\* at most three digits that spell a number up to 255 (zero under '-').
RECURSIVE StripZeros(_)
StripZeros(s) == IF s # <<>> /\ Head(s) = "0" THEN StripZeros(Tail(s)) ELSE s

ByteDigits(s) ==
    /\ s # <<>>
    /\ \A i \in 1..Len(s) : s[i] \in {"0", "1", "2", "3", "4", "5", "6", "7", "8", "9"}
    /\ LET z == StripZeros(s)
       IN \/ Len(z) <= 2
          \/ /\ Len(z) = 3
             /\ \/ z[1] = "1"
                \/ z[1] = "2" /\ z[2] \in {"0", "1", "2", "3", "4"}
                \/ z[1] = "2" /\ z[2] = "5" /\ z[3] \in {"0", "1", "2", "3", "4", "5"}

ByteNumeral(s) ==
    IF s # <<>> /\ Head(s) = "+" THEN ByteDigits(Tail(s))
    ELSE IF s # <<>> /\ Head(s) = "-"
         THEN ByteDigits(Tail(s)) /\ StripZeros(Tail(s)) = <<>>
    ELSE ByteDigits(s)

NagOpens ==
    /\ pc = "loop" /\ LoopGuard(In, Rec, maxMoves) /\ m_hasTags
    /\ NextCharIs("$") /\ PlainText(NagText)

RECURSIVE TextUpToSpaceOrDot(_, _)
TextUpToSpaceOrDot(cs, i) ==
    IF i > Len(cs) \/ IsSpace(cs[i]) \/ cs[i] = "." THEN <<>>
    ELSE <<cs[i]>> \o TextUpToSpaceOrDot(cs, i + 1)

\* The next token starts with a digit and is not a termination marker.
NumberOpens ==
    /\ pc = "loop" /\ LoopGuard(In, Rec, maxMoves) /\ m_hasTags
    /\ \E d \in {"0", "1", "2", "3", "4", "5", "6", "7", "8", "9"} : NextCharIs(d)
    /\ PlainText(TextUpToSpaceOrDot(chars, SkipWhiteSpace(chars, pos) + 1))
    /\ TextUpToSpaceOrDot(chars, SkipWhiteSpace(chars, pos) + 1) \notin Terminators

\* The item just returned is one the builder passes over: a move number, a
\* comment, a NAG, or a tag whose name is not one of the five it knows.
PassedOver(l) ==
    \/ l.item \in {PgnMoveNumber, PgnComment, PgnNag}
    \/ /\ l.item = PgnTag
       /\ SectionFirst(l.str) \notin {sWhite, sBlack, sResult, sVariant, sFEN}

\* C13: a token whose first character is a digit and that is not a
\* termination marker is returned as a move-number item; move-number,
\* comment and NAG items and tags with an unrecognised name leave the
\* moves, the player names, the result, the variant, the starting position
\* and the parsing board unchanged, and the loop goes on.
C13_PassedOverItemsChangeNothing ==
    /\ [][NumberOpens => last'.item = PgnMoveNumber]_vars
    /\ [][(pc = "loop" /\ nItems' = nItems + 1 /\ PassedOver(last'))
            => /\ UNCHANGED <<m_moves, m_whitePlayer, m_blackPlayer, m_result,
                              m_variant, m_fen, board>>
               /\ pc' = "loop"]_vars

C13_Witness ==
    /\ pc = "loop" /\ last.item = PgnMoveNumber /\ m_moves # <<>>
    /\ last.str = <<"4", "e">>

\* C14: write() on a record without tags puts out nothing, whatever the
\* other fields hold: the destination is not opened, no text is appended,
\* and the stream's file is as it was.
C14_NoTagsNoOutput ==
    [][(writes' = writes + 1 /\ ~m_hasTags)
         => /\ ~lastWrite'.opened
            /\ lastWrite'.text = <<>>
            /\ chars' = chars]_vars

C14_Witness ==
    /\ writes >= 1 /\ ~orig.m_hasTags /\ orig.m_fen # <<>> /\ lastWrite.text = <<>>
    /\ pc = "idle"

\* Whether the text holds a tag pair of this name: '[', the name, a space
\* and a quote.
HasTagPair(text, name) ==
    LET pat == <<"[">> \o name \o <<" ", Q>>
    IN \E i \in 0..(Len(text) - Len(pat)) : SubSeq(text, i + 1, i + Len(pat)) = pat

\* A call of write() has just put a record with tags into its destination.
Wrote == writes' = writes + 1 /\ m_hasTags /\ lastWrite'.ok

ContentOpens ==
    /\ pc = "loop" /\ LoopGuard(In, Rec, maxMoves)
    /\ \/ NextCharIs("[")
       \/ m_hasTags /\ \E c \in {"(", "{", "$", ";"} : NextCharIs(c)

\* C17: readItem returns Empty only when the stream was exhausted or a
\* line break was met before any content: an item that opens a bracket,
\* starts a NAG with '$' or starts a rest-of-line comment with ';', and is
\* read without reaching the end of the stream, is never Empty, so it does
\* not make the builder stop the game.
C17_EmptyOnlyWithoutContent ==
    [][(ContentOpens /\ pos' < Len(chars))
         => /\ last'.item # PgnEmpty
            /\ pc' = "done" => last'.item \in {PgnError, PgnResult}]_vars

\* C18: constructing a record from a finite stream terminates, whatever
\* maxMoves is: every readItem call that is entered returns, and the
\* constructor's loop is left, also on brackets that are never closed, on
\* games without a termination marker and on text without a tag.
C18_ConstructionTerminates ==
    /\ (pc = "scan") ~> (pc = "returned")
    /\ (pc \in {"loop", "scan", "returned"}) ~> (pc = "done")

\* An opened bracket was never closed, and the constructor has returned at
\* the end of the stream.
C18_Witness ==
    /\ pc = "done" /\ status = ReadPastEnd /\ m_hasTags
    /\ \E i \in 1..Len(toks) : toks[i] = cOpen
    /\ \A i \in 1..Len(toks) : toks[i] # cClose

\* C19: a construction with maxMoves >= 1 that starts before the end of
\* the stream leaves the stream strictly beyond where it started, also
\* when it ends with the rewind of a tag after moves; so the games read so
\* far never outnumber the characters consumed, and reading game after
\* game reaches the end of the stream.
C19_EveryGameAdvances ==
    /\ [](pc = "done" /\ maxMoves >= 1 /\ startStatus = Ok /\ startPos < Len(chars)
            => pos > startPos)
    /\ [](pc \in {"idle", "done"} => gameNo <= pos)
    /\ <>(pc \in {"idle", "done"} /\ (pos = Len(chars) \/ status # Ok))

\* A game has ended with the rewind, before the end of the stream and
\* beyond where it started.
C19_Witness ==
    /\ pc = "done" /\ last.rewound /\ last.item = PgnError
    /\ pos > startPos /\ pos < Len(chars) /\ chars[pos + 1] = "["

\* The move that emitMove is about to be called with comes too late: the
\* timer is still running and no time is left after the update.
TooLate == m_timer.active /\ Update(m_timeControl).timeLeft <= 0

\* How many of the signals are timeouts.
RECURSIVE Timeouts(_)
Timeouts(sigs) ==
    IF sigs = <<>> THEN 0
    ELSE (IF Head(sigs) = SigTimeout THEN 1 ELSE 0) + Timeouts(Tail(sigs))

\* C16: every call of emitMove(move) updates the time control first and
\* emits moveMade(move) exactly once, last; it emits timeout before it
\* exactly when the move came too late, and then the timer has been
\* stopped first.
C16_EmitMoveOrder ==
    [][lastEmit'.flip # lastEmit.flip
         => /\ m_timeControl' = Update(m_timeControl)
            /\ lastEmit'.trace
                 = <<"update">>
                   \o (IF m_timer.active THEN <<"stop">> ELSE <<>>)
                   \o (IF TooLate THEN <<"timeout">> ELSE <<>>)
                   \o <<"moveMade">>
            /\ signals' = signals \o (IF TooLate THEN <<SigTimeout>> ELSE <<>>)
                                  \o <<SigMoveMade(lastEmit'.move)>>
            /\ TooLate => ~m_timer'.active]_vars

C16_Witness ==
    /\ pc = "player"
    /\ lastEmit.trace = <<"update", "stop", "timeout", "moveMade">>
    /\ Len(signals) >= 2
    /\ signals[Len(signals)] = SigMoveMade(lastEmit.move)
    /\ signals[Len(signals) - 1] = SigTimeout

\* C20: between one call of go() and the next the player emits timeout at
\* most once, however the timer's firing, emitMove() and endGame()
\* interleave: emitMove leaves the timer stopped, and once endGame() has
\* been called no timeout is emitted until go() is called again.
C20_AtMostOneTimeout ==
    /\ [](Timeouts(signals) <= 1)
    /\ [][lastEmit'.flip # lastEmit.flip => ~m_timer'.active]_vars
    /\ [][(ended /\ ended') => Timeouts(signals') = Timeouts(signals)]_vars

\* The timer has fired, and the move made after it has emitted no second
\* timeout although no time is left.
C20_Witness ==
    /\ pc = "player"
    /\ Len(signals) >= 2
    /\ signals[Len(signals) - 1] = SigTimeout
    /\ signals[Len(signals)] = SigMoveMade(lastEmit.move)
    /\ lastEmit.trace = <<"update", "moveMade">>
    /\ m_timeControl.timeLeft <= 0

====
